---- MODULE Spec2Model ----
(***************************************************************************)
(* Launch orchestration of Cryolite/majsoulrpaview: generic/launch.py and  *)
(* vulkan/launch.py.  One session: parse and validate the arguments,       *)
(* derive the geometry, build the image, start the container, read its     *)
(* identifier after a fixed delay, then, inside `with DockerContainer`,    *)
(* read the credential, run the exec steps, wait for the operator, and     *)
(* stop the container in __exit__.                                         *)
(***************************************************************************)
EXTENDS Integers, Sequences, FiniteSets, TLC

VARIABLES
    variant,            \* which launch.py runs: "generic" or "vulkan"
    options,            \* the Namespace returned by parser.parse_args()
    pc,                 \* position of _main
    width,              \* _main: width
    height,             \* _main: height
    runProc,            \* the un-awaited `docker run` child of Popen
    docker_run_stdout,  \* lines written to the temporary file
    container_id,       \* _main: container_id
    entered,            \* the with-block of DockerContainer was entered
    vnc_password,       \* _main: vnc_password (a sequence of characters)
    step,               \* index of the next exec step of the with-body
    acked,              \* input() returned
    credProgram,        \* what the credential program did when it ran
    display,            \* the display server started by a detached step
    cmds,               \* every external command issued so far, in order
    exc,                \* the exception in flight (type "None": none)
    sys_stdout,         \* text printed by the script to sys.stdout
    sys_stderr          \* text printed by the script to sys.stderr

vars == <<variant, options, pc, width, height, runProc, docker_run_stdout,
          container_id, entered, vnc_password, step, acked, credProgram,
          display, cmds, exc, sys_stdout, sys_stderr>>

----------------------------------------------------------------------------
(* Program constants: the literals of _parse_arguments and _run_container. *)

MinViewportHeight == 720
MaxViewportHeight == 2160
PrivilegedPortMax == 1024
DynamicPortMin == 49152
NovncPortMinGeneric == 1024
NovncPortMaxGeneric == 49151

(* Bound of the model: how far outside [720, 2160] the sampled             *)
(* --viewport-height values of the geometry specification reach.           *)
HeightMargin == 3

----------------------------------------------------------------------------
(* Inputs. *)

Variants == {"generic", "vulkan"}

HeightSamples == {719, 720, 2160, 2161}

DepthChoices == {8, 16, 24}

DepthSamples == {24, 32}

DeviceSamples == {-1, 0, 1}

PortSamples == {1024, 1025, 49151, 49152}

\* Path.exists() / Path.is_file() of --vnc-password-file
FileKinds == {"missing", "directory", "file"}

\* the identifier `docker run -d` prints
TheContainerId == "c1"

\* stdout of the credential program: a sequence of lines, each a sequence
\* of characters
CredentialStdouts ==
    { <<>>,
      << <<"s", "1">> >>,
      << <<"i", "'", "s">> >>,
      << <<"'", "s">> >>,
      << <<"s", "1">>, <<"'">> >> }

CredentialStderrs == { <<>>, <<"warn">> }

----------------------------------------------------------------------------
(* Exceptions. *)

NoException == [type |-> "None", at |-> "", context |-> ""]

\* raise `type` at `at` while `handled` is the exception being handled
Raised(type, at, handled) ==
    [type |-> type, at |-> at,
     context |-> IF handled.type = "None" THEN "" ELSE handled.at]

----------------------------------------------------------------------------
(* _parse_arguments *)

ViewportHeightRejected(h) == h < MinViewportHeight \/ MaxViewportHeight < h

DeviceRejected(v, d) == v = "vulkan" /\ d < 0

RemotePortRejected(p) == p <= PrivilegedPortMax \/ DynamicPortMin <= p

MessageQueuePortRejected(p) == p <= PrivilegedPortMax \/ DynamicPortMin <= p

\* generic/launch.py
NovncPortRejectedGeneric(p) ==
    p < NovncPortMinGeneric \/ NovncPortMaxGeneric < p

\* vulkan/launch.py
NovncPortRejectedVulkan(p) == p <= PrivilegedPortMax \/ DynamicPortMin <= p

NovncPortRejected(v, p) ==
    IF v = "generic"
    THEN NovncPortRejectedGeneric(p)
    ELSE NovncPortRejectedVulkan(p)

\* FirstRejection with the two checks of the credential path left out
FirstRejectionWithoutFileCheck(v, o) ==
    IF o.depth \notin DepthChoices THEN "--depth"
    ELSE IF ViewportHeightRejected(o.viewport_height) THEN "--viewport-height"
    ELSE IF DeviceRejected(v, o.device) THEN "--device"
    ELSE IF RemotePortRejected(o.remote_port) THEN "--remote-port"
    ELSE IF MessageQueuePortRejected(o.message_queue_port)
         THEN "--message-queue-port"
    ELSE IF NovncPortRejected(v, o.novnc_port) THEN "--novnc-port"
    ELSE ""

\* the first check of _parse_arguments that raises, "" when none does
FirstRejection(v, o) ==
    IF o.depth \notin DepthChoices THEN "--depth"
    ELSE IF ViewportHeightRejected(o.viewport_height) THEN "--viewport-height"
    ELSE IF DeviceRejected(v, o.device) THEN "--device"
    ELSE IF RemotePortRejected(o.remote_port) THEN "--remote-port"
    ELSE IF MessageQueuePortRejected(o.message_queue_port)
         THEN "--message-queue-port"
    ELSE IF NovncPortRejected(v, o.novnc_port) THEN "--novnc-port"
    ELSE IF o.vnc_password_file = "missing" THEN "--vnc-password-file:exists"
    ELSE IF o.vnc_password_file # "file" THEN "--vnc-password-file:is_file"
    ELSE ""

\* argparse exits on a value outside `choices`; the range checks raise
RejectionType(at) == IF at = "--depth" THEN "SystemExit" ELSE "RuntimeError"

ParseArguments ==
    /\ pc = "parse"
    /\ LET at == FirstRejection(variant, options)
       IN  IF at # ""
           THEN /\ exc' = Raised(RejectionType(at), at, exc)
                /\ pc' = "terminated"
           ELSE /\ pc' = "derive"
                /\ UNCHANGED exc
    /\ UNCHANGED <<variant, options, width, height, runProc,
                   docker_run_stdout, container_id, entered, vnc_password,
                   step, acked, credProgram, cmds, sys_stdout, sys_stderr,
                   display>>

----------------------------------------------------------------------------
(* _main: geometry *)

\* DerivedWidth multiplying before it truncates
DerivedWidthMultiplyFirst(h) == (h * 16) \div 9

DerivedWidth(h) == (h \div 9) * 16

\* DerivedHeight with the ratio inverted
DerivedHeightInverted(w) == (w * 4) \div 3

DerivedHeight(w) == (w * 3) \div 4

DeriveGeometry ==
    /\ pc = "derive"
    /\ width' = DerivedWidth(options.viewport_height)
    /\ height' = DerivedHeight(DerivedWidth(options.viewport_height))
    /\ pc' = "build"
    /\ UNCHANGED <<variant, options, runProc, docker_run_stdout,
                   container_id, entered, vnc_password, step, acked, credProgram, cmds,
                   exc, sys_stdout, sys_stderr,
                   display>>

----------------------------------------------------------------------------
(* External commands and their results *)

\* one external command as the script issues it
Command(kind, name, id, detached, geom, secret, result) ==
    [kind |-> kind, name |-> name, id |-> id, detached |-> detached,
     geom |-> geom, secret |-> secret, result |-> result]

\* how a blocking call can end: the child's exit status, or Ctrl-C
Results == {"zero", "nonzero", "interrupt"}

\* the container engine cannot succeed on an empty container name
ContainerResults(id) ==
    IF id = "" THEN {"nonzero", "interrupt"} ELSE Results

\* the build run with check=False
BuildUnchecked == FALSE

\* the credential program run with check=False
CredentialUnchecked == FALSE

\* the docker exec steps run with check=False
ExecUnchecked == FALSE

\* the check= argument of each subprocess.run call
BuildCheck == TRUE

CredentialCheck == TRUE

ExecCheck == TRUE

StopCheck == TRUE

\* subprocess.run: raises CalledProcessError iff check and a non-zero exit
RaisesCalledProcessError(check, result) == check /\ result = "nonzero"

KindsIssued == { cmds[i].kind : i \in DOMAIN cmds }

Count(kind) == Cardinality({ i \in DOMAIN cmds : cmds[i].kind = kind })

----------------------------------------------------------------------------
(* _run_container *)

Build ==
    /\ pc = "build"
    /\ \E result \in Results :
          /\ cmds' = Append(cmds, Command("build", "docker build", "",
                                          FALSE, <<>>, <<>>, result))
          /\ IF result = "interrupt"
             THEN /\ exc' = Raised("KeyboardInterrupt", "build", exc)
                  /\ pc' = "terminated"
             ELSE IF RaisesCalledProcessError(BuildCheck, result)
             THEN /\ exc' = Raised("CalledProcessError", "build", exc)
                  /\ pc' = "terminated"
             ELSE /\ pc' = "popen"
                  /\ UNCHANGED exc
    /\ UNCHANGED <<variant, options, width, height, runProc,
                   docker_run_stdout, container_id, entered, vnc_password,
                   step, acked, credProgram, sys_stdout, sys_stderr,
                   display>>

\* subprocess.Popen: the child is started and not waited for
StartContainer ==
    /\ pc = "popen"
    /\ cmds' = Append(cmds, Command("run", "docker run", "", TRUE,
                                    <<>>, <<>>, "started"))
    /\ runProc' = "started"
    /\ docker_run_stdout' = <<>>
    /\ pc' = "sleep"
    /\ UNCHANGED <<variant, options, width, height, container_id, entered,
                   vnc_password, step, acked, credProgram, exc, sys_stdout, sys_stderr,
                   display>>

\* the child creates the container and prints its identifier
RunProcWrites ==
    /\ runProc = "started"
    /\ runProc' = "wrote"
    /\ docker_run_stdout' = Append(docker_run_stdout, TheContainerId)
    /\ UNCHANGED <<variant, options, pc, width, height, container_id,
                   entered, vnc_password, step, acked, credProgram, cmds, exc,
                   sys_stdout, sys_stderr,
                   display>>

\* the child fails and prints nothing on its stdout
RunProcFails ==
    /\ runProc = "started"
    /\ runProc' = "failed"
    /\ UNCHANGED <<variant, options, pc, width, height, docker_run_stdout,
                   container_id, entered, vnc_password, step, acked, credProgram, cmds,
                   exc, sys_stdout, sys_stderr,
                   display>>

\* time.sleep(1.0)
SettleDelay ==
    /\ pc = "sleep"
    /\ \E result \in {"elapsed", "interrupt"} :
          IF result = "interrupt"
          THEN /\ exc' = Raised("KeyboardInterrupt", "sleep", exc)
               /\ pc' = "terminated"
          ELSE /\ pc' = "read"
               /\ UNCHANGED exc
    /\ UNCHANGED <<variant, options, width, height, runProc,
                   docker_run_stdout, container_id, entered, vnc_password,
                   step, acked, credProgram, cmds, sys_stdout, sys_stderr,
                   display>>

\* seek(0); readline().rstrip("\n"): the first line, "" at end of file
FirstLine(file) == IF file = <<>> THEN "" ELSE file[1]

ReadIdentifier ==
    /\ pc = "read"
    /\ container_id' = FirstLine(docker_run_stdout)
    /\ pc' = "with"
    /\ UNCHANGED <<variant, options, width, height, runProc,
                   docker_run_stdout, entered, vnc_password, step, acked, credProgram,
                   cmds, exc, sys_stdout, sys_stderr,
                   display>>

----------------------------------------------------------------------------
(* DockerContainer *)

\* __init__ and __enter__: no check of the identifier, nothing issued
Enter ==
    /\ pc = "with"
    /\ entered' = TRUE
    /\ pc' = "credential"
    /\ UNCHANGED <<variant, options, width, height, runProc,
                   docker_run_stdout, container_id, vnc_password, step,
                   acked, credProgram, cmds, exc, sys_stdout, sys_stderr,
                   display>>

\* the exception that leaves __exit__, given the one that entered it
ExitException(result, pending) ==
    IF result = "interrupt"
    THEN Raised("KeyboardInterrupt", "stop", pending)
    ELSE IF RaisesCalledProcessError(StopCheck, result)
    THEN Raised("CalledProcessError", "stop", pending)
    ELSE pending

\* __exit__ releasing only when the body raised nothing
StopCommandsOnSuccess(id, result) ==
    IF exc.type = "None"
    THEN << Command("stop", "docker container stop", id, FALSE, <<>>, <<>>,
                    result) >>
    ELSE <<>>

\* the commands __exit__ issues
StopCommands(id, result) ==
    << Command("stop", "docker container stop", id, FALSE, <<>>, <<>>,
               result) >>

\* __exit__
Exit ==
    /\ pc = "exit"
    /\ \E result \in ContainerResults(container_id) :
          /\ cmds' = cmds \o StopCommands(container_id, result)
          /\ exc' = ExitException(result, exc)
    /\ pc' = "terminated"
    /\ UNCHANGED <<variant, options, width, height, runProc,
                   docker_run_stdout, container_id, entered, vnc_password,
                   step, acked, credProgram, sys_stdout, sys_stderr,
                   display>>

----------------------------------------------------------------------------
(* _main: the body of the with-block *)

\* str.find("'") != -1
ContainsSingleQuote(s) == \E i \in DOMAIN s : s[i] = "'"

\* no secret is refused
SecretNeverRejected(s) == FALSE

\* find("'") > 0 in place of find("'") != -1: a leading quote passes
SecretRejectedAfterFirstChar(s) == \E i \in DOMAIN s : i > 1 /\ s[i] = "'"

\* whether the script refuses this secret
SecretRejected(s) == ContainsSingleQuote(s)

\* the record of one run of the credential program
Ran(result, out, err) == [result |-> result, out |-> out, err |-> err]

Credential ==
    /\ pc = "credential"
    /\ \E result \in Results, out \in CredentialStdouts,
          err \in CredentialStderrs :
          /\ cmds' = Append(cmds, Command("credential", "vnc_password_file",
                                          "", FALSE, <<>>, <<>>, result))
          \* an interrupted run returns no output to the script
          /\ result = "interrupt" => out = <<>> /\ err = <<>>
          /\ credProgram' = Ran(result, out, err)
          /\ IF result = "interrupt"
             THEN /\ exc' = Raised("KeyboardInterrupt", "credential", exc)
                  /\ pc' = "exit"
                  /\ UNCHANGED <<vnc_password, sys_stdout, sys_stderr>>
             ELSE IF RaisesCalledProcessError(CredentialCheck, result)
             THEN /\ exc' = Raised("CalledProcessError", "credential", exc)
                  /\ pc' = "exit"
                  /\ UNCHANGED <<vnc_password, sys_stdout, sys_stderr>>
             ELSE /\ sys_stdout' = sys_stdout \o err
                  /\ sys_stderr' = sys_stderr \o err
                  /\ IF out = <<>>
                     THEN /\ exc' = Raised("IndexError", "splitlines", exc)
                          /\ pc' = "exit"
                          /\ UNCHANGED vnc_password
                     ELSE /\ vnc_password' = out[1]
                          /\ IF SecretRejected(out[1])
                             THEN /\ exc' = Raised("RuntimeError",
                                                   "vnc_password", exc)
                                  /\ pc' = "exit"
                             ELSE /\ pc' = "steps"
                                  /\ UNCHANGED exc
    /\ UNCHANGED <<variant, options, width, height, runProc,
                   docker_run_stdout, container_id, entered, step, acked,
                   display>>

\* the docker exec calls of the body, in source order
StepsGeneric ==
    <<"Xvfb", "storepasswd", "x11vnc", "novnc", "remote_browser">>

\* StepsVulkan with the password stored before the display server starts
StepsVulkanPasswordFirst ==
    <<"nvidia-xconfig", "sed", "xinitrc", "storepasswd", "startx", "x11vnc",
      "novnc">>

StepsVulkan ==
    <<"nvidia-xconfig", "sed", "xinitrc", "startx", "storepasswd", "x11vnc",
      "novnc">>

Steps(v) == IF v = "generic" THEN StepsGeneric ELSE StepsVulkan

\* the steps run with `docker exec -d`
DetachedSteps == {"Xvfb", "startx", "x11vnc", "novnc", "remote_browser"}

\* the steps whose arguments carry {width}x{height}
GeometrySteps == {"Xvfb", "x11vnc", "nvidia-xconfig"}

ExecCommand(name, result) ==
    Command("exec", name, container_id, name \in DetachedSteps,
            IF name \in GeometrySteps THEN <<width, height>> ELSE <<>>,
            IF name = "storepasswd" THEN vnc_password ELSE <<>>,
            result)

\* the body without its input() call
AfterStepWithoutWait(v, i) == IF i = Len(Steps(v)) THEN "exit" ELSE "steps"

\* where the body goes after exec step i returned: input() follows the last
AfterStep(v, i) == IF i = Len(Steps(v)) THEN "input" ELSE "steps"

\* the detached steps that start the display server
DisplayServerSteps == {"Xvfb", "startx"}

\* `docker exec -d` returns as soon as the process is started in the
\* container: the display server is then starting, not yet ready
DisplayAfter(name, result, d) ==
    IF name \in DisplayServerSteps /\ result = "zero" THEN "starting" ELSE d

\* one subprocess.run(("docker", "exec", ...), check=True) of the body
IssueStep(name) ==
    /\ \E result \in ContainerResults(container_id) :
          /\ cmds' = Append(cmds, ExecCommand(name, result))
          /\ display' = DisplayAfter(name, result, display)
          /\ IF result = "interrupt"
             THEN /\ exc' = Raised("KeyboardInterrupt", name, exc)
                  /\ pc' = "exit"
                  /\ UNCHANGED step
             ELSE IF RaisesCalledProcessError(ExecCheck, result)
             THEN /\ exc' = Raised("CalledProcessError", name, exc)
                  /\ pc' = "exit"
                  /\ UNCHANGED step
             ELSE /\ step' = step + 1
                  /\ pc' = AfterStep(variant, step)
                  /\ UNCHANGED exc
    /\ UNCHANGED <<variant, options, width, height, runProc,
                   docker_run_stdout, container_id, entered, vnc_password,
                   acked, credProgram, sys_stdout, sys_stderr>>

\* ExecStep holding the remote-desktop server back until the display server
\* is ready
ExecStepAwaitingDisplay ==
    /\ pc = "steps"
    /\ step <= Len(Steps(variant))
    /\ Steps(variant)[step] = "x11vnc" => display = "ready"
    /\ IssueStep(Steps(variant)[step])

\* the next docker exec of the body: issued as soon as the one before it
\* returned
ExecStep ==
    /\ pc = "steps"
    /\ step <= Len(Steps(variant))
    /\ IssueStep(Steps(variant)[step])

\* the display server started by a detached step finishes starting
DisplayBecomesReady ==
    /\ display = "starting"
    /\ display' = "ready"
    /\ UNCHANGED <<variant, options, pc, width, height, runProc,
                   docker_run_stdout, container_id, entered, vnc_password,
                   step, acked, credProgram, cmds, exc, sys_stdout,
                   sys_stderr>>

\* how input() can end: the operator answers, or Ctrl-C
OperatorResults == {"acknowledged", "interrupt"}

\* input("Press any key to kill the remote browser...")
Input ==
    /\ pc = "input"
    /\ \E result \in OperatorResults :
          IF result = "interrupt"
          THEN /\ exc' = Raised("KeyboardInterrupt", "input", exc)
               /\ UNCHANGED acked
          ELSE /\ acked' = TRUE
               /\ UNCHANGED exc
    /\ pc' = "exit"
    /\ UNCHANGED <<variant, options, width, height, runProc,
                   docker_run_stdout, container_id, entered, vnc_password,
                   step, credProgram, cmds, sys_stdout, sys_stderr,
                   display>>

----------------------------------------------------------------------------
(* Initial states *)

OptionSamples ==
    [viewport_height : HeightSamples,
     depth : DepthSamples,
     device : DeviceSamples,
     remote_port : PortSamples,
     message_queue_port : PortSamples,
     novnc_port : PortSamples,
     vnc_password_file : FileKinds]

InitRest ==
    /\ pc = "parse"
    /\ width = 0
    /\ height = 0
    /\ runProc = "none"
    /\ docker_run_stdout = <<>>
    /\ container_id = ""
    /\ entered = FALSE
    /\ vnc_password = <<>>
    /\ step = 1
    /\ acked = FALSE
    /\ credProgram = Ran("none", <<>>, <<>>)
    /\ display = "none"
    /\ cmds = <<>>
    /\ exc = NoException
    /\ sys_stdout = <<>>
    /\ sys_stderr = <<>>

Init ==
    /\ variant \in Variants
    /\ options \in OptionSamples
    \* generic/launch.py has no --device
    /\ variant = "generic" => options.device = 0
    /\ InitRest

\* the steps of the script itself, in program order
Main ==
    \/ ParseArguments
    \/ DeriveGeometry
    \/ Build
    \/ StartContainer
    \/ SettleDelay
    \/ ReadIdentifier
    \/ Enter
    \/ Credential
    \/ ExecStep
    \/ Input
    \/ Exit

Next ==
    \/ ParseArguments
    \/ DeriveGeometry
    \/ Build
    \/ StartContainer
    \/ RunProcWrites
    \/ RunProcFails
    \/ SettleDelay
    \/ ReadIdentifier
    \/ Enter
    \/ Credential
    \/ ExecStep
    \/ DisplayBecomesReady
    \/ Input
    \/ Exit

Spec == Init /\ [][Next]_vars

\* the interpreter keeps executing the script: a step that can be taken is
\* taken (every blocking call of the model returns)
FairSpec == Init /\ [][Next]_vars /\ WF_vars(Main)

----------------------------------------------------------------------------
(* The geometry of every --viewport-height: validation and derivation only *)

GeometryHeights ==
    (MinViewportHeight - HeightMargin) .. (MaxViewportHeight + HeightMargin)

InitGeometry ==
    /\ variant \in Variants
    /\ options \in [viewport_height : GeometryHeights,
                    depth : {24},
                    device : {0},
                    remote_port : {1025},
                    message_queue_port : {49151},
                    novnc_port : {1025},
                    vnc_password_file : {"file"}]
    /\ InitRest

NextGeometry ==
    \/ ParseArguments
    \/ DeriveGeometry

SpecGeometry == InitGeometry /\ [][NextGeometry]_vars

----------------------------------------------------------------------------
(* Properties *)

\* the session reached Running: identifier obtained, release scope entered
Running == entered /\ container_id # ""

HasSingleQuote(s) == \E j \in DOMAIN s : s[j] = "'"

NoInterrupt ==
    /\ \A i \in DOMAIN cmds : cmds[i].result # "interrupt"
    /\ exc.type # "KeyboardInterrupt"
    /\ exc.at # "input"
    /\ exc.context # "input"

\* C1: every session that reached Running issues the stop command exactly
\* once: never more than once, and once by the time the process has
\* terminated, whatever the outcome of the body (success, a failed step, an
\* interrupt).
C1_StopExactlyOnce ==
    Running =>
        /\ Count("stop") <= 1
        /\ pc = "terminated" => Count("stop") = 1

\* C1 witness: a middle exec step exited non-zero in a Running session,
\* which has terminated after one stop.
C1_Witness ==
    /\ Running
    /\ pc = "terminated"
    /\ \E i \in DOMAIN cmds :
          /\ cmds[i].name = "x11vnc"
          /\ cmds[i].result = "nonzero"
    /\ Count("stop") = 1

\* C2 (as claimed): when the identifier read after the settle delay is
\* empty, the session fails with ContainerStartFailed and issues no
\* credential, exec or stop command.
C2_NoIdentifierFailsStart ==
    (container_id = "" /\ (pc = "with" \/ entered)) =>
        /\ KindsIssued \cap {"credential", "exec", "stop"} = {}
        /\ pc \in {"with", "terminated"}
        /\ pc = "terminated" => exc.type = "ContainerStartFailed"

\* C3 (as claimed): in a session that reached Running, a non-zero exit of
\* the stop command is never the failure that the terminated process
\* surfaces: after a failed step the step's failure is surfaced, after a
\* successful body none is.
C3_StopFailureNotPropagated ==
    (Running /\ pc = "terminated") =>
        ~(exc.type = "CalledProcessError" /\ exc.at = "stop")

\* C4 (as claimed): validation accepts a port value iff it lies in
\* 1025..49151, for each of the three port parameters of both variants: a
\* session whose arguments were accepted has all three ports in range, and
\* a rejection that names a port names one that is out of range.
C4_PortAcceptedIffInRange ==
    LET InRange(p) == 1025 <= p /\ p <= 49151
    IN  /\ (pc \notin {"parse", "terminated"} \/ cmds # <<>>) =>
              /\ InRange(options.remote_port)
              /\ InRange(options.message_queue_port)
              /\ InRange(options.novnc_port)
        /\ exc.at = "--remote-port" => ~InRange(options.remote_port)
        /\ exc.at = "--message-queue-port" =>
              ~InRange(options.message_queue_port)
        /\ exc.at = "--novnc-port" => ~InRange(options.novnc_port)

\* C5: no password-store command ever carries a secret with a single quote,
\* and once the credential program has printed a first line with a single
\* quote the session issues no exec command at all and is on its way out.
C5_QuotedSecretNeverStored ==
    /\ \A i \in DOMAIN cmds :
          cmds[i].name = "storepasswd" => ~HasSingleQuote(cmds[i].secret)
    /\ ( /\ credProgram.result = "zero"
         /\ credProgram.out # <<>>
         /\ HasSingleQuote(credProgram.out[1]) ) =>
            /\ "exec" \notin KindsIssued
            /\ pc \in {"exit", "terminated"}

\* C5 witness: the credential program printed a quoted first line and the
\* session has terminated.
C5_Witness ==
    /\ credProgram.result = "zero"
    /\ credProgram.out # <<>>
    /\ HasSingleQuote(credProgram.out[1])
    /\ pc = "terminated"
    /\ exc.type = "RuntimeError"

\* C6 (as claimed): for every accepted --viewport-height the derived width
\* lies in [1280, 3840] and the derived height in [720, 2160].
C6_GeometryWithinDimensionBounds ==
    pc = "build" =>
        /\ 1280 <= width /\ width <= 3840
        /\ 720 <= height /\ height <= 2160

\* C6 (amended): for every accepted --viewport-height the derived width
\* lies in [1280, 3840] and the derived height in [960, 2880].
C6_GeometryBounds ==
    pc = "build" =>
        /\ 1280 <= width /\ width <= 3840
        /\ 960 <= height /\ height <= 2880

\* C6 witness: the largest accepted --viewport-height has been derived.
C6_Witness ==
    /\ pc = "build"
    /\ options.viewport_height = 2160
    /\ width = 3840
    /\ height = 2880

C8_BuildFailureEndsSession ==
    \A i \in DOMAIN cmds :
        (cmds[i].kind = "build" /\ cmds[i].result = "nonzero") =>
            /\ Len(cmds) = 1
            /\ runProc = "none"
            /\ ~entered
            /\ pc = "terminated"
            /\ exc.type = "CalledProcessError" /\ exc.at = "build"

\* C8 witness: the build exited non-zero and the process has terminated.
C8_Witness ==
    /\ cmds # <<>>
    /\ cmds[1].kind = "build"
    /\ cmds[1].result = "nonzero"
    /\ pc = "terminated"

C10_StopWaitsForOperator ==
    /\ []( ( /\ Count("stop") > 0
             /\ step > Len(Steps(variant))
             /\ NoInterrupt ) => acked )
    /\ (acked ~> Count("stop") = 1)

\* C10 witness: every step succeeded, the operator acknowledged, the stop
\* was issued once and returned zero.
C10_Witness ==
    /\ acked
    /\ pc = "terminated"
    /\ Count("stop") = 1
    /\ exc.type = "None"

\* C11: for every accepted --viewport-height h, in both variants, the
\* derived width is 16 times the largest q with 9q <= h, and the derived
\* height is the largest r with 4r <= 3 * width; h = 900 gives 1600 x 1200.
C11_GeometryExact ==
    pc = "build" =>
        LET h == options.viewport_height
        IN  /\ \E q \in 0 .. h :
                  /\ 9 * q <= h /\ h < 9 * q + 9
                  /\ width = 16 * q
            /\ 4 * height <= 3 * width /\ 3 * width < 4 * height + 4
            /\ h = 900 => (width = 1600 /\ height = 1200)

\* C11 witness: --viewport-height 900 has been derived as 1600 x 1200.
C11_Witness ==
    /\ pc = "build"
    /\ options.viewport_height = 900
    /\ width = 1600
    /\ height = 1200

IsExec(c) == c.kind = "exec"

\* the docker exec commands issued so far, in order
ExecLog == SelectSeq(cmds, IsExec)

\* the script reached input()
ReachedOperatorWait ==
    pc = "input" \/ acked \/ exc.at = "input" \/ exc.context = "input"

\* the exec commands so far are a prefix of `order` with the detached flags
\* of `detached`, all but possibly the last returned zero, the operator wait
\* is reached only after all of them returned zero, and a step that did not
\* return zero sends the script to the release
InOrder(order, detached) ==
    /\ Len(ExecLog) <= Len(order)
    /\ \A k \in DOMAIN ExecLog :
          /\ ExecLog[k].name = order[k]
          /\ ExecLog[k].detached = detached[k]
          /\ k < Len(ExecLog) => ExecLog[k].result = "zero"
    /\ ReachedOperatorWait =>
          /\ Len(ExecLog) = Len(order)
          /\ ExecLog[Len(order)].result = "zero"
    /\ (ExecLog # <<>> /\ ExecLog[Len(ExecLog)].result # "zero") =>
          /\ pc \in {"exit", "terminated"}
          /\ ~ReachedOperatorWait

\* C12: in generic/launch.py the exec steps are issued in the order virtual
\* display (detached), password store, remote-desktop server (detached),
\* web relay (detached), remote browser control (detached), then the
\* operator wait; a step is issued only after all before it returned zero,
\* and none is issued after a step that did not.
C12_GenericStepOrder ==
    variant = "generic" =>
        InOrder(<<"Xvfb", "storepasswd", "x11vnc", "novnc",
                  "remote_browser">>,
                <<TRUE, FALSE, TRUE, TRUE, TRUE>>)

\* C12 witness: the remote-desktop server start, the third step, exited
\* non-zero and the session terminated without a fourth.
C12_Witness ==
    /\ variant = "generic"
    /\ Len(ExecLog) = 3
    /\ ExecLog[3].name = "x11vnc"
    /\ ExecLog[3].result = "nonzero"
    /\ pc = "terminated"

\* C13: in vulkan/launch.py the exec steps are issued in the order display
\* configuration, configuration patch, startup script, display server
\* (detached), password store, remote-desktop server (detached), web relay
\* (detached), then the operator wait; a step is issued only after all
\* before it returned zero, and none is issued after a step that did not.
C13_VulkanStepOrder ==
    variant = "vulkan" =>
        InOrder(<<"nvidia-xconfig", "sed", "xinitrc", "startx",
                  "storepasswd", "x11vnc", "novnc">>,
                <<FALSE, FALSE, FALSE, TRUE, FALSE, TRUE, TRUE>>)

\* C13 witness: all seven steps returned zero and the script waits for the
\* operator.
C13_Witness ==
    /\ variant = "vulkan"
    /\ pc = "input"
    /\ Len(ExecLog) = 7
    /\ \A k \in DOMAIN ExecLog : ExecLog[k].result = "zero"

\* C14 (as claimed): every exec command is issued while the session is
\* Running, that is with an identifier obtained, inside the release scope
\* and before any stop command; and the stop command is the last command of
\* the session.
C14_ExecOnlyWhileRunning ==
    /\ \A i \in DOMAIN cmds :
          cmds[i].kind = "exec" =>
              /\ entered
              /\ cmds[i].id # ""
              /\ \A j \in 1 .. i : cmds[j].kind # "stop"
    /\ \A i \in DOMAIN cmds : cmds[i].kind = "stop" => i = Len(cmds)

\* C15 (as claimed): once the docker run child has written its identifier,
\* every exec command and the stop command of the session carry exactly
\* that identifier, whenever the child wrote it.
C15_CommandsCarryWrittenIdentifier ==
    runProc = "wrote" =>
        \A i \in DOMAIN cmds :
            cmds[i].kind \in {"exec", "stop"} =>
                cmds[i].id = docker_run_stdout[1]

\* C16 (as claimed): a terminated session whose docker run child launched
\* a container has issued a stop command.
C16_LaunchedContainerIsStopped ==
    (pc = "terminated" /\ runProc = "wrote") => Count("stop") >= 1

\* C17: no step of the body waits for a detached service: whenever the
\* script stands before an exec step that step can be issued, in particular
\* the remote-desktop server start while the display server is still
\* starting.
C17_NoReadinessWait ==
    (pc = "steps" /\ step <= Len(Steps(variant))) => ENABLED ExecStep

\* C17 witness: the remote-desktop server start has been issued and the
\* display server started by the earlier detached step is not yet ready.
C17_Witness ==
    /\ \E i \in DOMAIN cmds :
          /\ cmds[i].name = "x11vnc"
          /\ cmds[i].result = "zero"
    /\ display = "starting"

\* the credential program ran to its end and gave no usable secret: no
\* output line at all, or a first line with a single quote
CredentialUnusable ==
    /\ credProgram.result \in {"zero", "nonzero"}
    /\ \/ credProgram.out = <<>>
       \/ HasSingleQuote(credProgram.out[1])

\* C18: in a Running session whose credential program printed no line or a
\* first line with a single quote, the script is on its way out with an
\* error, no exec command is ever issued, and by termination the stop
\* command has been issued exactly once.
C18_CredentialFailureAborts ==
    (Running /\ CredentialUnusable) =>
        /\ pc \in {"exit", "terminated"}
        /\ exc.type # "None"
        /\ "exec" \notin KindsIssued
        /\ Count("stop") <= 1
        /\ pc = "terminated" => Count("stop") = 1

\* C18 witness: a Running session terminated on a credential program that
\* exited zero without printing a line.
C18_Witness ==
    /\ Running
    /\ credProgram.result = "zero"
    /\ credProgram.out = <<>>
    /\ pc = "terminated"
    /\ Count("stop") = 1
    /\ "exec" \notin KindsIssued
    /\ "splitlines" \in {exc.at, exc.context}

====
